---- MODULE Spec2Model ----
(***************************************************************************)
(* Model of menpofit/aps/fitter.py: the APSFitter base configuration       *)
(* object and the GaussNewtonAPSFitter factory that builds one             *)
(* Gauss-Newton algorithm object per scale of a trained APS model.         *)
(*                                                                         *)
(* Python objects are records.  An attribute that has not been assigned    *)
(* yet is absent from the record's `attrs` set (its slot then holds a      *)
(* placeholder of the right type).  Python list index j is index j+1 of    *)
(* the sequence that models the list.                                      *)
(***************************************************************************)
EXTENDS Integers, Sequences, FiniteSets, TLC

\* ---------------------------------------------------------------- bounds
MaxScales == 2       \* trained models have 1..MaxScales scales
MaxComponents == 2   \* stored components of every shape model
MaxResults == 2      \* longest list handed to _fitter_result

VARIABLES
    apsObj,   \* the trained model object handed to the constructor
    apsObj0,  \* the same object as it was before construction started
    fitter,   \* the fitter object under construction / constructed
    status,   \* "new", "returned" (constructor returned), "raised"
    exc,      \* the exception a raising constructor propagated
    ctor,     \* which constructor ran: "", "APSFitter", "GaussNewtonAPSFitter"
    args,     \* the arguments the constructor was called with
    calls,    \* the collaborator calls made during construction, in order
    ret       \* the last _fitter_result call and its outcome

vars == <<apsObj, apsObj0, fitter, status, exc, ctor, args, calls, ret>>

Min(a, b) == IF a <= b THEN a ELSE b

\* ------------------------------------------------- the trained model (aps)
\* Per-scale sub-models and patch geometry; `id` is the scale the entry was
\* trained for, so that entries of different scales are distinguishable.
AppearanceModel(j) == [type |-> "appearance_model", id |-> j]
DeformationModel(j) == [type |-> "deformation_model", id |-> j]
ShapeModel(j) == [type |-> "shape_model", id |-> j,
                  n_components |-> MaxComponents,
                  n_active_components |-> MaxComponents]
PatchShape(j) == [type |-> "patch_shape", id |-> j]
PatchNormalisation(j) == [type |-> "patch_normalisation", id |-> j]

\* A model object with n scales whose five per-scale lists have the given
\* lengths (a trained model has all five of length n).
GenerativeAPS(n, up, la, ls, ld, lp, ln) ==
    [oid |-> 1,
     scales |-> [i \in 1..n |-> i],
     reference_shape |-> "reference_shape",
     holistic_features |-> "holistic_features",
     use_procrustes |-> up,
     appearance_models |-> [i \in 1..la |-> AppearanceModel(i - 1)],
     shape_models |-> [i \in 1..ls |-> ShapeModel(i - 1)],
     deformation_models |-> [i \in 1..ld |-> DeformationModel(i - 1)],
     patch_shape |-> [i \in 1..lp |-> PatchShape(i - 1)],
     patch_normalisation |-> [i \in 1..ln |-> PatchNormalisation(i - 1)]]

n_scales(m) == Len(m.scales)

TrainedModels ==
    { GenerativeAPS(n, up, n, n, n, n, n) : n \in 1..MaxScales, up \in BOOLEAN }

\* Models whose per-scale lists may be shorter than the scale count.
AnyModels ==
    UNION { { GenerativeAPS(n, up, la, ls, ld, lp, ln) :
                up \in BOOLEAN, la \in 0..n, ls \in 0..n, ld \in 0..n,
                lp \in 0..n, ln \in 0..n } : n \in 1..MaxScales }

\* ------------------------------------------------------------ exceptions
NoExc == [type |-> "", at |-> "", scale |-> -1]
Raise(type, at, j) == [type |-> type, at |-> at, scale |-> j]

\* --------------------------------------------- collaborators of the module
\* Shape-component selections: None, one int (exact count), one float (kept
\* variance, in percent) or a per-scale list of ints/floats.
NShapeNone == [kind |-> "none", val |-> 0, items |-> <<>>]
NShapeInt(k) == [kind |-> "int", val |-> k, items |-> <<>>]
NShapeFloat(p) == [kind |-> "float", val |-> p, items |-> <<>>]
NShapeList(l) == [kind |-> "list", val |-> 0, items |-> l]

\* Components that are active in a shape model with k stored components
\* under the selection v (an int or a float).
ActiveComponents(v, k) ==
    IF v.kind = "int" THEN Min(v.val, k)
    ELSE CHOOSE a \in 0..k :
             /\ a * 100 >= v.val * k
             /\ \A b \in 0..k : b * 100 >= v.val * k => a <= b

SetActive(sm, v) ==
    [sm EXCEPT !.n_active_components = ActiveComponents(v, sm.n_components)]

\* The shape-component validation helper: checks the selection against the
\* scale count and marks the active components of the model's shape models.
\* st is the construction state [self, aps, calls, exc].
_check_n_shape(st, n_shape) ==
    LET m == st.aps
        sms == m.shape_models
    IN  IF n_shape.kind = "none" THEN st
        ELSE IF n_shape.kind \in {"int", "float"}
        THEN [st EXCEPT !.aps.shape_models =
                 [i \in 1..Len(sms) |-> SetActive(sms[i], n_shape)]]
        ELSE IF Len(n_shape.items) = n_scales(m)
        THEN [st EXCEPT !.aps.shape_models =
                 [i \in 1..Len(sms) |-> SetActive(sms[i], n_shape.items[i])]]
        ELSE [st EXCEPT !.exc = Raise("ValueError", "_check_n_shape", -1)]

\* Sampling specifications: None (0) or an int step for all scales, or a
\* per-scale list of such entries.
SamplingScalar(v) == [kind |-> "scalar", val |-> v, items |-> <<>>]
SamplingList(l) == [kind |-> "list", val |-> 0, items |-> l]

\* The sampling validation helper: one entry per scale, or a failure.
check_sampling(sampling, n) ==
    IF sampling.kind = "scalar"
    THEN [ok |-> TRUE, value |-> [i \in 1..n |-> sampling.val]]
    ELSE IF Len(sampling.items) = n
    THEN [ok |-> TRUE, value |-> sampling.items]
    ELSE [ok |-> FALSE, value |-> <<>>]

\* The appearance model's mean instance.
mean(am) == [type |-> "template", of |-> am]

\* The two point-distribution-model wrappers.
OrthoPDM(sm) == [cls |-> "OrthoPDM", model |-> sm]
PDM(sm) == [cls |-> "PDM", model |-> sm]

\* The solver interface wrapper.
GaussNewtonBaseInterface(am, dm, pdm, use_deformation_cost, template, s, patch_shape, patch_normalisation) ==
    [appearance_model |-> am, deformation_model |-> dm, pdm |-> pdm,
     use_deformation_cost |-> use_deformation_cost, template |-> template,
     sampling |-> s, patch_shape |-> patch_shape,
     patch_normalisation |-> patch_normalisation]

\* An instance of the solver class cls around an interface.
gn_algorithm_cls(cls, interface) == [cls |-> cls, interface |-> interface]

\* The multi-scale orchestration base: its constructor stores what it is
\* given, and `scales` can be read only after it ran.
MultiScaleParametricFitter__init__(self, scales, reference_shape, holistic_features, algorithms) ==
    [self EXCEPT !.attrs = @ \cup {"scales", "reference_shape",
                                   "holistic_features", "algorithms"},
                 !.scales = scales,
                 !.reference_shape = reference_shape,
                 !.holistic_features = holistic_features,
                 !.algorithms = algorithms]

\* The aggregate result type.
APSResult(results, scales, affine_transforms, scale_transforms, image, gt_shape) ==
    [results |-> results, scales |-> scales,
     affine_transforms |-> affine_transforms,
     scale_transforms |-> scale_transforms, image |-> image,
     gt_shape |-> gt_shape]

\* ------------------------------------------------------------ the fitter
\* A freshly allocated fitter object: no attribute assigned yet.
NewFitter ==
    [attrs |-> {}, _model |-> 0, _sampling |-> <<>>, algorithms |-> <<>>,
     scales |-> <<>>, reference_shape |-> "", holistic_features |-> ""]

NewState(m) == [self |-> NewFitter, aps |-> m, calls |-> <<>>, exc |-> NoExc]

\* APSFitter.__init__
APSFitter__init__(st, algorithms) ==
    LET m == st.aps
        self1 == [st.self EXCEPT !.attrs = @ \cup {"_model"}, !._model = m.oid]
    IN  [st EXCEPT !.self = MultiScaleParametricFitter__init__(
                                self1, m.scales, m.reference_shape,
                                m.holistic_features, algorithms)]

\* Faulty variant of aps: the accessor hands out a copy, a different object.
aps_copy(self) == self._model + 1

\* APSFitter.aps (read-only property)
aps(self) == self._model

\* APSFitter._fitter_result.  `self.scales` belongs to the orchestration
\* base, whose constructor alone sets it: on a fitter whose base was never
\* initialised the read raises AttributeError and no aggregate is built.
_fitter_result(self, image, algorithm_results, affine_transforms, scale_transforms, gt_shape) ==
    IF "scales" \in self.attrs
    THEN [kind |-> "APSResult",
          value |-> APSResult(algorithm_results, self.scales,
                              affine_transforms, scale_transforms, image,
                              gt_shape)]
    ELSE [kind |-> "AttributeError",
          value |-> APSResult(<<>>, <<>>, <<>>, <<>>, "", "")]

\* zip() of four lists: as long as the shortest of them.
zip4(a, b, c, d) ==
    [i \in 1..Min(Min(Len(a), Len(b)), Min(Len(c), Len(d))) |->
        <<a[i], b[i], c[i], d[i]>>]

\* Faulty variant of build_pdm: the use_procrustes flag is ignored.
build_pdm_plain(m, sm) == PDM(sm)

\* _set_up, lines 126-130: the point-distribution wrapper of one scale.
build_pdm(m, sm) == IF m.use_procrustes THEN OrthoPDM(sm) ELSE PDM(sm)

\* Faulty variant of build_interface: the patch geometry of scale 0 for every scale.
build_interface_scale0(m, e, pdm, use_deformation_cost, template, j) ==
    GaussNewtonBaseInterface(e[1], e[3], pdm, use_deformation_cost, template,
                             e[4], m.patch_shape[1], m.patch_normalisation[1])

\* _set_up, lines 133-135: the solver interface of scale j from the zip
\* tuple e = (am, sm, dm, s), the wrapper and the template of that scale.
build_interface(m, e, pdm, use_deformation_cost, template, j) ==
    GaussNewtonBaseInterface(e[1], e[3], pdm, use_deformation_cost, template,
                             e[4], m.patch_shape[j + 1],
                             m.patch_normalisation[j + 1])

\* Faulty variant of append_algorithm: the list is started afresh at every scale.
append_algorithm_reset(self, algorithm) ==
    [self EXCEPT !.algorithms = <<algorithm>>]

\* _set_up, line 138: self.algorithms.append(...)
append_algorithm(self, algorithm) ==
    [self EXCEPT !.algorithms = Append(@, algorithm)]

\* Faulty variant of _set_up_scale: the patch geometry is indexed with j + 1.
_set_up_scale_off_by_one(st, e, cls, use_deformation_cost, j) ==
    LET template == mean(e[1])
        pdm == build_pdm(st.aps, e[2])
        calls1 == st.calls \o <<[fn |-> "mean", scale |-> j],
                                [fn |-> pdm.cls, scale |-> j]>>
    IN  IF j + 1 >= Len(st.aps.patch_shape)
           \/ j + 1 >= Len(st.aps.patch_normalisation)
        THEN [st EXCEPT !.calls = calls1,
                        !.exc = Raise("IndexError", "_set_up", j)]
        ELSE LET interface == build_interface(st.aps, e, pdm,
                                              use_deformation_cost, template,
                                              j + 1)
             IN  [st EXCEPT
                     !.calls = calls1 \o
                         <<[fn |-> "GaussNewtonBaseInterface", scale |-> j],
                           [fn |-> cls, scale |-> j]>>,
                     !.self = append_algorithm(
                                  @, gn_algorithm_cls(cls, interface))]

\* The body of the loop of GaussNewtonAPSFitter._set_up for scale j, where
\* e is the j-th tuple of the zip.  Indexing patch_shape or
\* patch_normalisation past its end raises IndexError, after the template and
\* the wrapper of the scale were built.
_set_up_scale(st, e, cls, use_deformation_cost, j) ==
    LET template == mean(e[1])
        pdm == build_pdm(st.aps, e[2])
        calls1 == st.calls \o <<[fn |-> "mean", scale |-> j],
                                [fn |-> pdm.cls, scale |-> j]>>
    IN  IF j >= Len(st.aps.patch_shape) \/ j >= Len(st.aps.patch_normalisation)
        THEN [st EXCEPT !.calls = calls1,
                        !.exc = Raise("IndexError", "_set_up", j)]
        ELSE LET interface == build_interface(st.aps, e, pdm,
                                              use_deformation_cost, template, j)
             IN  [st EXCEPT
                     !.calls = calls1 \o
                         <<[fn |-> "GaussNewtonBaseInterface", scale |-> j],
                           [fn |-> cls, scale |-> j]>>,
                     !.self = append_algorithm(
                                  @, gn_algorithm_cls(cls, interface))]

\* The loop of _set_up from scale j on: it ends with the zip or with the
\* first exception.
RECURSIVE _set_up_loop(_, _, _, _, _)
_set_up_loop(st, z, cls, use_deformation_cost, j) ==
    IF j >= Len(z) \/ st.exc.type # "" THEN st
    ELSE _set_up_loop(_set_up_scale(st, z[j + 1], cls, use_deformation_cost, j),
                      z, cls, use_deformation_cost, j + 1)

\* Faulty variant of _set_up: the shape models are trimmed to their active
\* components before the wrappers are built.
_set_up_trimming(st, cls, use_deformation_cost) ==
    LET sms == st.aps.shape_models
        st0 == [st EXCEPT
                   !.self.attrs = @ \cup {"algorithms"},
                   !.self.algorithms = <<>>,
                   !.aps.shape_models =
                       [i \in DOMAIN sms |->
                           [sms[i] EXCEPT !.n_components =
                                              sms[i].n_active_components]]]
        z == zip4(st0.aps.appearance_models, st0.aps.shape_models,
                  st0.aps.deformation_models, st0.self._sampling)
    IN  _set_up_loop(st0, z, cls, use_deformation_cost, 0)

\* Faulty variant of _set_up: the list is built in a local and assigned to the
\* fitter only after the loop, so a raising loop leaves no `algorithms`.
_set_up_local_list(st, cls, use_deformation_cost) ==
    LET st0 == [st EXCEPT !.self.attrs = @ \cup {"algorithms"},
                          !.self.algorithms = <<>>]
        z == zip4(st.aps.appearance_models, st.aps.shape_models,
                  st.aps.deformation_models, st.self._sampling)
        out == _set_up_loop(st0, z, cls, use_deformation_cost, 0)
    IN  IF out.exc.type = "" THEN out
        ELSE [out EXCEPT !.self.attrs = @ \ {"algorithms"},
                         !.self.algorithms = <<>>]

\* GaussNewtonAPSFitter._set_up
_set_up(st, cls, use_deformation_cost) ==
    LET st0 == [st EXCEPT !.self.attrs = @ \cup {"algorithms"},
                          !.self.algorithms = <<>>]
        z == zip4(st.aps.appearance_models, st.aps.shape_models,
                  st.aps.deformation_models, st.self._sampling)
    IN  _set_up_loop(st0, z, cls, use_deformation_cost, 0)

\* Faulty variant of GaussNewtonAPSFitter.__init__: the sampling is stored as given,
\* without the check against the scale count.
GaussNewtonAPSFitter__init__unchecked(st, cls, n_shape, use_deformation_cost, sampling) ==
    LET st1 == [st EXCEPT !.self.attrs = @ \cup {"_model"},
                          !.self._model = st.aps.oid]
        st2 == _check_n_shape(st1, n_shape)
        given == IF sampling.kind = "list" THEN sampling.items
                 ELSE [i \in 1..n_scales(st2.aps) |-> sampling.val]
        st3 == [st2 EXCEPT !.self.attrs = @ \cup {"_sampling"},
                           !.self._sampling = given]
    IN  IF st2.exc.type # "" THEN st2
        ELSE _set_up(st3, cls, use_deformation_cost)

\* GaussNewtonAPSFitter.__init__
GaussNewtonAPSFitter__init__(st, cls, n_shape, use_deformation_cost, sampling) ==
    LET st1 == [st EXCEPT !.self.attrs = @ \cup {"_model"},
                          !.self._model = st.aps.oid]
        st2 == _check_n_shape(st1, n_shape)
        cs  == check_sampling(sampling, n_scales(st2.aps))
        st3 == [st2 EXCEPT !.self.attrs = @ \cup {"_sampling"},
                           !.self._sampling = cs.value]
    IN  IF st2.exc.type # "" THEN st2
        ELSE IF ~cs.ok
        THEN [st2 EXCEPT !.exc = Raise("ValueError", "check_sampling", -1)]
        ELSE _set_up(st3, cls, use_deformation_cost)

\* ------------------------------------------------------- inputs of calls
SolverClasses == {"Inverse", "Forward"}

NShapeItem(i) == IF i % 2 = 1 THEN NShapeInt(1) ELSE NShapeFloat(50)

NShapeInputs(n) ==
    {NShapeNone, NShapeInt(1), NShapeFloat(50)} \cup
    { NShapeList([i \in 1..l |-> NShapeItem(i)]) : l \in 0..(n + 1) }

\* Entry 0 is None, entry k > 0 a sub-sampling step; the entries of a list
\* differ from scale to scale.
SamplingInputs(n) ==
    {SamplingScalar(0), SamplingScalar(2)} \cup
    { SamplingList([i \in 1..l |-> i - 1]) : l \in 0..(n + 1) }

\* Algorithm lists a caller may hand to APSFitter.
AlgorithmInputs(n) ==
    { [i \in 1..l |-> [cls |-> "Algorithm", scale |-> i - 1]] : l \in 0..(n + 1) }

PerScale(type, l) == [i \in 1..l |-> [type |-> type, id |-> i - 1]]

NoArgs ==
    [gn_algorithm_cls |-> "", n_shape |-> NShapeNone,
     use_deformation_cost |-> TRUE, sampling |-> SamplingScalar(0),
     algorithms |-> <<>>]

NoCall ==
    [image |-> "", algorithm_results |-> <<>>, affine_transforms |-> <<>>,
     scale_transforms |-> <<>>, gt_shape |-> ""]

NoRet ==
    [kind |-> "none", value |-> APSResult(<<>>, <<>>, <<>>, <<>>, "", ""),
     call |-> NoCall]

\* --------------------------------------------------------------- actions
InitWith(models) ==
    /\ apsObj \in models
    /\ apsObj0 = apsObj
    /\ fitter = NewFitter
    /\ status = "new"
    /\ exc = NoExc
    /\ ctor = ""
    /\ args = NoArgs
    /\ calls = <<>>
    /\ ret = NoRet

Init == InitWith(TrainedModels)

InitAnyModel == InitWith(AnyModels)

\* The outcome st of a constructor call becomes the state.
Constructed(name, a, st) ==
    /\ fitter' = st.self
    /\ apsObj' = st.aps
    /\ calls' = st.calls
    /\ exc' = st.exc
    /\ status' = IF st.exc.type = "" THEN "returned" ELSE "raised"
    /\ ctor' = name
    /\ args' = a
    /\ UNCHANGED <<apsObj0, ret>>

\* APSFitter(aps, algorithms)
ConstructAPSFitter ==
    /\ status = "new"
    /\ \E algorithms \in AlgorithmInputs(n_scales(apsObj)) :
          Constructed("APSFitter",
                      [NoArgs EXCEPT !.algorithms = algorithms],
                      APSFitter__init__(NewState(apsObj), algorithms))

\* GaussNewtonAPSFitter(aps, gn_algorithm_cls, n_shape, use_deformation_cost,
\*                      sampling)
ConstructGaussNewtonAPSFitter ==
    /\ status = "new"
    /\ \E cls \in SolverClasses, n_shape \in NShapeInputs(n_scales(apsObj)),
          use_deformation_cost \in BOOLEAN,
          sampling \in SamplingInputs(n_scales(apsObj)) :
          Constructed("GaussNewtonAPSFitter",
                      [gn_algorithm_cls |-> cls, n_shape |-> n_shape,
                       use_deformation_cost |-> use_deformation_cost,
                       sampling |-> sampling, algorithms |-> <<>>],
                      GaussNewtonAPSFitter__init__(
                          NewState(apsObj), cls, n_shape,
                          use_deformation_cost, sampling))

\* fitter._fitter_result(image, algorithm_results, affine_transforms,
\*                       scale_transforms[, gt_shape]) on a fitter the caller
\* got back from a constructor; gt_shape defaults to None.
FitterResult ==
    /\ status = "returned"
    /\ \E la \in 0..MaxResults, lt \in 0..MaxResults, ls \in 0..MaxResults,
          gt_shape \in {"None", "gt_shape"} :
          LET call == [image |-> "image",
                       algorithm_results |-> PerScale("result", la),
                       affine_transforms |-> PerScale("affine", lt),
                       scale_transforms |-> PerScale("scale", ls),
                       gt_shape |-> gt_shape]
              out == _fitter_result(fitter, call.image, call.algorithm_results,
                                    call.affine_transforms,
                                    call.scale_transforms, call.gt_shape)
          IN  ret' = [kind |-> out.kind, value |-> out.value, call |-> call]
    /\ UNCHANGED <<apsObj, apsObj0, fitter, status, exc, ctor, args, calls>>

Next ==
    \/ ConstructAPSFitter
    \/ ConstructGaussNewtonAPSFitter
    \/ FitterResult

\* Trained models: construction, then any number of _fitter_result calls.
Spec == Init /\ [][Next]_vars

\* Construction only, on models whose per-scale lists may be too short.
Construct ==
    \/ ConstructAPSFitter
    \/ ConstructGaussNewtonAPSFitter

SpecAnyModel == InitAnyModel /\ [][Construct]_vars

\* ================================================================ claims
N == n_scales(apsObj)

GNDone == ctor = "GaussNewtonAPSFitter" /\ status # "new"
GNReturned == ctor = "GaussNewtonAPSFitter" /\ status = "returned"
GNRaised == ctor = "GaussNewtonAPSFitter" /\ status = "raised"

\* The selection / the sampling specification passes its validation helper.
ValidNShape == args.n_shape.kind = "list" => Len(args.n_shape.items) = N
ValidSampling == args.sampling.kind = "list" => Len(args.sampling.items) = N

\* C1: a GaussNewtonAPSFitter construction that returns on a trained model
\* with N scales leaves exactly N entries in `algorithms`, entry j being the
\* instance of the solver class built for scale j.
C1_OneAlgorithmPerScale ==
    GNReturned =>
        /\ "algorithms" \in fitter.attrs
        /\ Len(fitter.algorithms) = N
        /\ \A j \in 0..(N - 1) :
              /\ fitter.algorithms[j + 1].cls = args.gn_algorithm_cls
              /\ fitter.algorithms[j + 1].interface.appearance_model.id = j

C1_Witness == GNReturned /\ N >= 2 /\ Len(fitter.algorithms) = N

\* C2: algorithms[j] wraps an interface built only from the entries of scale
\* j: appearance_models[j], deformation_models[j], a PDM wrapper around
\* shape_models[j], the mean of appearance_models[j] as template, entry j of
\* the normalised sampling, patch_shape[j], patch_normalisation[j], and the
\* use_deformation_cost flag of the constructor call.
C2_CorrespondingEntries ==
    GNReturned =>
        \A i \in DOMAIN fitter.algorithms :
            LET a == fitter.algorithms[i].interface
            IN  /\ a.appearance_model = apsObj.appearance_models[i]
                /\ a.deformation_model = apsObj.deformation_models[i]
                /\ a.pdm.model = apsObj.shape_models[i]
                /\ a.pdm.cls \in {"OrthoPDM", "PDM"}
                /\ a.template = mean(apsObj.appearance_models[i])
                /\ a.sampling = fitter._sampling[i]
                /\ a.sampling = check_sampling(args.sampling, N).value[i]
                /\ a.patch_shape = apsObj.patch_shape[i]
                /\ a.patch_normalisation = apsObj.patch_normalisation[i]
                /\ a.use_deformation_cost = args.use_deformation_cost

C2_Witness ==
    /\ GNReturned
    /\ Len(fitter.algorithms) >= 2
    /\ args.sampling.kind = "list"
    /\ ~args.use_deformation_cost
    /\ fitter.algorithms[2].interface.patch_shape.id = 1

\* C3: every scale's wrapper is an OrthoPDM when the model's use_procrustes
\* flag is true and a PDM when it is false; the two are never mixed.
C3_UniformPDM ==
    GNReturned =>
        \A i \in DOMAIN fitter.algorithms :
            fitter.algorithms[i].interface.pdm.cls =
                IF apsObj.use_procrustes THEN "OrthoPDM" ELSE "PDM"

C3_Witness ==
    /\ GNReturned
    /\ apsObj.use_procrustes
    /\ Len(fitter.algorithms) >= 2
    /\ fitter.algorithms[2].interface.pdm.cls = "OrthoPDM"

\* C4: the `aps` accessor of a fitter that either constructor returned is the
\* model object passed at construction (the same object, not a copy), also
\* after any number of _fitter_result calls.
C4_ApsIsTheModel ==
    status = "returned" =>
        /\ "_model" \in fitter.attrs
        /\ aps(fitter) = apsObj.oid

C4_Witness == GNReturned /\ ret.kind # "none" /\ aps(fitter) = apsObj.oid

\* C5: a per-scale sampling list shorter or longer than the scale count makes
\* GaussNewtonAPSFitter construction fail before any per-scale work: no
\* template, wrapper, interface or solver instance is built and no algorithm
\* list exists; the error is the sampling check's ValueError (the selection
\* check, which runs first, having passed).
C5_BadSamplingFailsEarly ==
    (GNDone /\ args.sampling.kind = "list" /\ Len(args.sampling.items) # N) =>
        /\ status = "raised"
        /\ calls = <<>>
        /\ "algorithms" \notin fitter.attrs
        /\ fitter.algorithms = <<>>
        /\ exc.type = "ValueError"
        /\ ValidNShape => exc.at = "check_sampling"

C5_Witness ==
    /\ GNRaised
    /\ args.sampling.kind = "list"
    /\ Len(args.sampling.items) >= 1
    /\ Len(args.sampling.items) < N
    /\ exc.at = "check_sampling"

\* The stored components of the model are what they were before the call:
\* every per-scale list has the same length and the same elements in the
\* same order, and no shape model lost a stored component.
ComponentsUntouched ==
    /\ apsObj.appearance_models = apsObj0.appearance_models
    /\ apsObj.deformation_models = apsObj0.deformation_models
    /\ apsObj.patch_shape = apsObj0.patch_shape
    /\ apsObj.patch_normalisation = apsObj0.patch_normalisation
    /\ Len(apsObj.shape_models) = Len(apsObj0.shape_models)
    /\ \A i \in DOMAIN apsObj.shape_models :
          /\ apsObj.shape_models[i].id = apsObj0.shape_models[i].id
          /\ apsObj.shape_models[i].n_components =
                 apsObj0.shape_models[i].n_components
    /\ apsObj.scales = apsObj0.scales
    /\ apsObj.oid = apsObj0.oid

\* C6: for every valid n_shape (None, an int, a float, a per-scale list)
\* construction passes the selection check, returns when the sampling is
\* valid too, and leaves the model's stored components untouched.
C6_ModelComponentsKept ==
    (GNDone /\ ValidNShape) =>
        /\ exc.at # "_check_n_shape"
        /\ ValidSampling => status = "returned"
        /\ ComponentsUntouched

C6_Witness ==
    /\ GNReturned
    /\ args.n_shape.kind = "list"
    /\ Len(args.n_shape.items) >= 2
    /\ apsObj.shape_models[1].n_active_components <
           apsObj.shape_models[1].n_components

\* C7 as claimed: when construction raises, the fitter object has none of its
\* fields set and no partially filled algorithm list.
C7_NoPartialState ==
    GNRaised => (fitter.attrs = {} /\ fitter.algorithms = <<>>)

\* C7 as amended: construction returns a fitter with model, sampling and one
\* algorithm per zipped scale, or raises and hands the caller no fitter; the
\* abandoned object is partly initialised: _model is always set, _sampling
\* and algorithms only once both checks passed, and algorithms then holds the
\* entries of the scales built before the failing one.
C7_PartialStateOnRaise ==
    /\ GNReturned =>
          /\ fitter.attrs = {"_model", "_sampling", "algorithms"}
          /\ fitter._model = apsObj.oid
          /\ Len(fitter._sampling) = N
          /\ Len(fitter.algorithms) =
                 Min(Min(Len(apsObj.appearance_models), Len(apsObj.shape_models)),
                     Min(Len(apsObj.deformation_models), N))
    /\ GNRaised =>
          /\ ret = NoRet
          /\ fitter._model = apsObj.oid
          /\ exc.at \in {"_check_n_shape", "check_sampling", "_set_up"}
          /\ exc.at \in {"_check_n_shape", "check_sampling"} =>
                (fitter.attrs = {"_model"} /\ calls = <<>>)
          /\ exc.at = "_set_up" =>
                /\ fitter.attrs = {"_model", "_sampling", "algorithms"}
                /\ Len(fitter.algorithms) = exc.scale
                /\ Len(calls) = 4 * exc.scale + 2

C7_Witness ==
    /\ GNRaised
    /\ exc.at = "_set_up"
    /\ exc.scale >= 1
    /\ Len(fitter.algorithms) = exc.scale

SomeListShort ==
    \/ Len(apsObj.appearance_models) < N
    \/ Len(apsObj.shape_models) < N
    \/ Len(apsObj.deformation_models) < N
    \/ Len(apsObj.patch_shape) < N
    \/ Len(apsObj.patch_normalisation) < N

\* C8 as claimed: a model with a per-scale list shorter than its scale count
\* never gets a fitter back: once the two checks passed, construction raises
\* an index/attribute error during unpacking.
C8_ShortListRaises ==
    (GNDone /\ SomeListShort) =>
        /\ status = "raised"
        /\ (ValidNShape /\ ValidSampling) =>
              exc.type \in {"IndexError", "AttributeError"}

\* C8 as amended: with both checks passed, the loop runs over the shortest of
\* appearance_models, shape_models, deformation_models and the N sampling
\* entries.  If patch_shape or patch_normalisation is shorter than that,
\* construction raises IndexError at the first scale either of them lacks;
\* otherwise construction returns, silently, with one algorithm per zipped
\* scale, which is fewer than N when a zipped list is short.
C8_ShortListOutcome ==
    (GNDone /\ ValidNShape /\ ValidSampling) =>
        LET zipped == Min(Min(Len(apsObj.appearance_models),
                              Len(apsObj.shape_models)),
                          Min(Len(apsObj.deformation_models), N))
            indexed == Min(Len(apsObj.patch_shape),
                           Len(apsObj.patch_normalisation))
        IN  IF indexed < zipped
            THEN /\ status = "raised"
                 /\ exc = Raise("IndexError", "_set_up", indexed)
                 /\ Len(fitter.algorithms) = indexed
            ELSE /\ status = "returned"
                 /\ Len(fitter.algorithms) = zipped

C8_Witness ==
    /\ GNReturned
    /\ SomeListShort
    /\ Len(fitter.algorithms) < N
    /\ Len(fitter.algorithms) >= 1

\* C9: every fitter a constructor returned had the model's scales, reference
\* shape and holistic features and its algorithm list forwarded to the
\* orchestration base's constructor, so no _fitter_result call reads
\* `scales` on an uninitialised base.
C9_BaseInitialised ==
    status = "returned" =>
        /\ {"scales", "reference_shape", "holistic_features", "algorithms"}
               \subseteq fitter.attrs
        /\ fitter.scales = apsObj.scales
        /\ fitter.reference_shape = apsObj.reference_shape
        /\ fitter.holistic_features = apsObj.holistic_features
        /\ ret.kind # "AttributeError"

\* C10: every _fitter_result call returns an aggregate made of exactly the
\* given results, transforms, image and gt_shape plus the fitter's scales,
\* whatever the lengths of the lists.
C10_PassThrough ==
    ret.kind # "none" =>
        /\ ret.kind = "APSResult"
        /\ ret.value = APSResult(ret.call.algorithm_results, apsObj.scales,
                                 ret.call.affine_transforms,
                                 ret.call.scale_transforms, ret.call.image,
                                 ret.call.gt_shape)

====
